---- MODULE Spec2Model ----
(***************************************************************************)
(* A model of presto_cpp/main/common/Configs.cpp: the property store       *)
(* (ConfigBase), the system/node/query-level facades built on it, the      *)
(* query-level override store and the capacity-string parser.              *)
(*                                                                         *)
(* Strings whose content is parsed (property values, capacity strings) are *)
(* sequences of one-character strings; property names, which are only      *)
(* compared, are plain strings.  A folly::Optional is a sequence of length *)
(* at most one.                                                            *)
(***************************************************************************)
EXTENDS Integers, Sequences, FiniteSets, TLC

VARIABLES
  config_,     \* ConfigBase::config_: the dynamic type of the store and its values
  filePath_,   \* ConfigBase::filePath_
  instance,    \* whether BaseVeloxQueryConfig::instance() has constructed the facade
  mutable_,    \* BaseVeloxQueryConfig::mutable_
  values_,     \* BaseVeloxQueryConfig::values_ (the data under the folly::Synchronized)
  lock,        \* the reader/writer lock of values_: its writer and its readers
  pc,          \* each thread's position in the call it is running
  local,       \* each thread's arguments and locals
  exited,      \* whether exit(1) has ended the process
  from,        \* toCapacity's argument: the capacity string
  to,          \* toCapacity's argument: the target unit
  lastCall     \* the last completed call: its arguments and what the caller observed

vars == <<config_, filePath_, instance, mutable_, values_, lock, pc, local,
          exited, from, to, lastCall>>

----------------------------------------------------------------------------
(* folly::Optional *)

None == <<>>

Some(v) == <<v>>

(* Strings as sequences of characters. *)

sTrue == <<"t", "r", "u", "e">>
sFalse == <<"f", "a", "l", "s", "e">>
sOne == <<"1">>
sX == <<"x">>

Digits == <<"0", "1", "2", "3", "4", "5", "6", "7", "8", "9">>

IsDigit(c) == \E i \in 1..10 : Digits[i] = c

DigitValue(c) == (CHOOSE i \in 1..10 : Digits[i] = c) - 1

IsSpace(c) == c \in {" ", "\t", "\n", "\f", "\r"}

UpperCase == <<"T", "R", "U", "E", "F", "A", "L", "S", "Y", "N", "O">>
LowerCase == <<"t", "r", "u", "e", "f", "a", "l", "s", "y", "n", "o">>

ToLower(c) ==
  IF \E i \in 1..Len(UpperCase) : UpperCase[i] = c
  THEN LowerCase[CHOOSE i \in 1..Len(UpperCase) : UpperCase[i] = c]
  ELSE c

RECURSIVE SkipSpaces(_)
SkipSpaces(s) ==
  IF s # <<>> /\ IsSpace(Head(s)) THEN SkipSpaces(Tail(s)) ELSE s

RECURSIVE DropTrailingSpaces(_)
DropTrailingSpaces(s) ==
  IF s # <<>> /\ IsSpace(s[Len(s)])
  THEN DropTrailingSpaces(SubSeq(s, 1, Len(s) - 1))
  ELSE s

Trim(s) == DropTrailingSpaces(SkipSpaces(s))

(* folly::to<bool>(string), as ConfigBase::initialize and the typed lookups *)
(* use it: surrounding whitespace is skipped, the token is compared         *)
(* without regard to case, and anything else is a conversion error         *)
(* (ok = FALSE).                                                            *)
TrueTokens == {<<"1">>, <<"t">>, sTrue, <<"y">>, <<"y", "e", "s">>, <<"o", "n">>}
FalseTokens == {<<"0">>, <<"f">>, sFalse, <<"n">>, <<"n", "o">>, <<"o", "f", "f">>}

toBool(s) ==
  LET t == [i \in 1..Len(Trim(s)) |-> ToLower(Trim(s)[i])]
  IN  IF t \in TrueTokens THEN [ok |-> TRUE, v |-> TRUE]
      ELSE IF t \in FalseTokens THEN [ok |-> TRUE, v |-> FALSE]
      ELSE [ok |-> FALSE, v |-> FALSE]

----------------------------------------------------------------------------
(* Property names. *)

kMutableConfig == "mutable-config"
kPrestoVersion == "presto.version"
kNodeId == "node.id"
kNodeMemoryGb == "node.memory_gb"

\* The members of the two allow-lists that the modelled property files use.
kSupportedSystemProperties == {kMutableConfig, kPrestoVersion}
kSupportedNodeProperties == {kNodeId, kNodeMemoryGb}

\* Every mapping from a subset of `keys` to `vals`.
Mappings(keys, vals) == UNION {[d -> vals] : d \in SUBSET keys}

EmptyMap == [k \in {} |-> <<>>]

\* Config::get(key): the raw lookup of MemConfig and MemConfigMutable.
Get(cfg, key) ==
  IF key \in DOMAIN cfg.values THEN Some(cfg.values[key]) ELSE None

\* The startup diagnostics: the keys logged as supported and as unsupported.
Classify(values, known) ==
  [supported |-> {k \in DOMAIN values : k \in known},
   unsupported |-> {k \in DOMAIN values : k \notin known}]

NoLog == [supported |-> {}, unsupported |-> {}]

checkIncomingSystemProperties(values) == Classify(values, kSupportedSystemProperties)

checkIncomingNodeProperties(values) == Classify(values, kSupportedNodeProperties)

\* The paths initialize is called with: a system file, a node file, another file.
SystemPath == "etc/config.properties"
NodePath == "etc/node.properties"
OtherPath == "etc/velox.properties"

IsSystemPath(p) == p = SystemPath

IsNodePath(p) == p = NodePath

\* No fallback function (nullptr), or one returning `result`.
NoFallback == [present |-> FALSE, result |-> 0]

Fallback(n) == [present |-> TRUE, result |-> n]

NoCall ==
  [op |-> "none", key |-> "", value |-> <<>>, outcome |-> "", ret |-> None,
   loaded |-> EmptyMap, log |-> NoLog, fallback |-> NoFallback, invoked |-> FALSE]

Call(op, key, value, outcome, ret) ==
  [op |-> op, key |-> key, value |-> value, outcome |-> outcome, ret |-> ret,
   loaded |-> EmptyMap, log |-> NoLog, fallback |-> NoFallback, invoked |-> FALSE]

----------------------------------------------------------------------------
(* The sets the calls draw their arguments from. *)

Keys == {kMutableConfig, kPrestoVersion}
Values == {sTrue, sFalse, sOne, sX}
Paths == {SystemPath, NodePath, OtherPath}

QueryKeys == {"q1", "q2"}
QueryValues == {sOne, sX}

\* What util::readConfig finds at a path: an unreadable file, or a flat mapping.
Unreadable == [readable |-> FALSE, values |-> EmptyMap]

Files == {Unreadable} \cup {[readable |-> TRUE, values |-> m] : m \in Mappings(Keys, Values)}

----------------------------------------------------------------------------
(* ConfigBase *)

\* velox::core::MemConfig (mutable = FALSE) or MemConfigMutable (mutable = TRUE).
MemConfig(values) == [mutable |-> FALSE, values |-> values]

MemConfigMutable(values) == [mutable |-> TRUE, values |-> values]

\* (*lockedValues)[propertyName] = value: insert or overwrite one key.
StoreValue(values, key, value) ==
  [k \in DOMAIN values \cup {key} |-> IF k = key THEN value ELSE values[k]]

\* ConfigBase::optionalProperty<bool>: absent, a parsed value, or a type mismatch.
optionalPropertyBool(cfg, key) ==
  IF key \notin DOMAIN cfg.values THEN [ok |-> TRUE, opt |-> None]
  ELSE IF toBool(cfg.values[key]).ok
       THEN [ok |-> TRUE, opt |-> Some(toBool(cfg.values[key]).v)]
       ELSE [ok |-> FALSE, opt |-> None]

\* initialize's mutableConfig local: false unless the mapping holds the key, and
\* then the parsed value; ok = FALSE when folly::to<bool> throws.
DecideMode(values) ==
  IF kMutableConfig \in DOMAIN values
  THEN toBool(values[kMutableConfig])
  ELSE [ok |-> TRUE, v |-> FALSE]

\* The store initialize builds from the mapping it read.
BuildConfig_Merge(old, values) ==
  [mutable |-> DecideMode(values).v,
   values |-> [k \in DOMAIN old.values \cup DOMAIN values |->
                 IF k \in DOMAIN values THEN values[k] ELSE old.values[k]]]

BuildConfig_NeverMutable(old, values) == MemConfig(values)

BuildConfig(old, values) ==
  IF DecideMode(values).v THEN MemConfigMutable(values) ELSE MemConfig(values)

\* The diagnostics initialize logs for a path.
StartupLog(filePath, values) ==
  IF IsSystemPath(filePath) THEN checkIncomingSystemProperties(values)
  ELSE IF IsNodePath(filePath) THEN checkIncomingNodeProperties(values)
  ELSE NoLog

initialize(filePath, file) ==
  /\ ~exited
  /\ IF ~file.readable
     THEN \* util::readConfig throws before anything is assigned.
          /\ lastCall' = Call("initialize", filePath, <<>>, "ReadError", None)
          /\ UNCHANGED <<config_, filePath_>>
     ELSE IF ~DecideMode(file.values).ok
     THEN \* folly::to<bool> throws after the diagnostics, before config_ is assigned.
          /\ lastCall' = [Call("initialize", filePath, <<>>, "ConversionError", None)
                            EXCEPT !.loaded = file.values,
                                   !.log = StartupLog(filePath, file.values)]
          /\ UNCHANGED <<config_, filePath_>>
     ELSE /\ config_' = BuildConfig(config_, file.values)
          /\ filePath_' = filePath
          /\ lastCall' = [Call("initialize", filePath, <<>>, "ok", None)
                            EXCEPT !.loaded = file.values,
                                   !.log = StartupLog(filePath, file.values)]
  /\ UNCHANGED <<instance, mutable_, values_, lock, pc, local, exited, from, to>>

\* Whether setValue's dynamic_cast to MemConfigMutable succeeds.
IsMutable_Unchecked(cfg) == TRUE

IsMutable(cfg) == cfg.mutable

\* memConfig->setValue(propertyName, value) on the store config_ points to.
MemConfigMutable_setValue_Redecide(cfg, propertyName, value) ==
  BuildConfig(cfg, StoreValue(cfg.values, propertyName, value))

MemConfigMutable_setValue_InsertOnly(cfg, propertyName, value) ==
  [cfg EXCEPT !.values =
     IF propertyName \in DOMAIN @ THEN @ ELSE StoreValue(@, propertyName, value)]

MemConfigMutable_setValue(cfg, propertyName, value) ==
  [cfg EXCEPT !.values = StoreValue(@, propertyName, value)]

ConfigBase_setValue(propertyName, value) ==
  /\ ~exited
  /\ IF IsMutable(config_)
     THEN /\ config_' = MemConfigMutable_setValue(config_, propertyName, value)
          /\ lastCall' = Call("setValue", propertyName, value, "ok",
                              Get(config_, propertyName))
     ELSE /\ lastCall' = Call("setValue", propertyName, value, "ConfigNotMutable", None)
          /\ UNCHANGED config_
  /\ UNCHANGED <<filePath_, instance, mutable_, values_, lock, pc, local, exited, from, to>>

\* ConfigBase::optionalProperty(name): the raw string lookup.
optionalProperty(propertyName) ==
  /\ ~exited
  /\ lastCall' = Call("get", propertyName, <<>>, "ok", Get(config_, propertyName))
  /\ UNCHANGED <<config_, filePath_, instance, mutable_, values_, lock, pc, local, exited, from, to>>

\* What SystemConfig::mutableConfig() gives on a store: the flag v, or with
\* ok = FALSE the type mismatch the lookup throws.
mutableConfigOf(cfg) ==
  LET r == optionalPropertyBool(cfg, kMutableConfig)
  IN  IF ~r.ok THEN [ok |-> FALSE, v |-> FALSE]
      ELSE IF r.opt = None THEN [ok |-> TRUE, v |-> FALSE]
      ELSE [ok |-> TRUE, v |-> r.opt[1]]

mutableConfig ==
  /\ ~exited
  /\ lastCall' =
       IF mutableConfigOf(config_).ok
       THEN Call("mutableConfig", kMutableConfig, <<>>, "ok",
                 Some(mutableConfigOf(config_).v))
       ELSE Call("mutableConfig", kMutableConfig, <<>>, "TypeMismatch", None)
  /\ UNCHANGED <<config_, filePath_, instance, mutable_, values_, lock, pc, local, exited, from, to>>

----------------------------------------------------------------------------
(* BaseVeloxQueryConfig, one call at a time *)

\* The flag the constructor captures from the system-level facade.
CapturedFlag(cfg) == mutableConfigOf(cfg)

\* BaseVeloxQueryConfig::instance(), first use: the constructor reads the flag once.
BaseVeloxQueryConfig_instance ==
  /\ ~exited
  /\ ~instance
  /\ IF CapturedFlag(config_).ok
     THEN /\ instance' = TRUE
          /\ mutable_' = CapturedFlag(config_).v
          /\ lastCall' = Call("instance", "", <<>>, "ok", None)
     ELSE \* the constructor throws: the static is not initialized, a later call retries
          /\ lastCall' = Call("instance", "", <<>>, "TypeMismatch", None)
          /\ UNCHANGED <<instance, mutable_>>
  /\ UNCHANGED <<config_, filePath_, values_, lock, pc, local, exited, from, to>>

\* Whether BaseVeloxQueryConfig::setValue passes its mutability check.
WriteAllowed_Live(flag) == mutableConfigOf(config_).v

WriteAllowed(flag) == flag

\* The find of setValue and getValue under the lock.
Find(values, propertyName) ==
  IF propertyName \in DOMAIN values THEN Some(values[propertyName]) ELSE None

BaseVeloxQueryConfig_setValue(propertyName, value) ==
  /\ ~exited
  /\ instance
  /\ lock = [w |-> 0, r |-> {}]
  /\ IF WriteAllowed(mutable_)
     THEN /\ values_' = StoreValue(values_, propertyName, value)
          /\ lastCall' = Call("querySetValue", propertyName, value, "ok",
                              Find(values_, propertyName))
     ELSE /\ lastCall' = Call("querySetValue", propertyName, value,
                              "ConfigNotMutable", None)
          /\ UNCHANGED values_
  /\ UNCHANGED <<config_, filePath_, instance, mutable_, lock, pc, local, exited, from, to>>

BaseVeloxQueryConfig_getValue(propertyName) ==
  /\ ~exited
  /\ instance
  /\ lock.w = 0
  /\ lastCall' = Call("queryGetValue", propertyName, <<>>, "ok",
                      Find(values_, propertyName))
  /\ UNCHANGED <<config_, filePath_, instance, mutable_, values_, lock, pc, local, exited, from, to>>

----------------------------------------------------------------------------
(* The stores, one call at a time. *)

NoThreads == [t \in {} |-> "idle"]

Init ==
  /\ config_ = MemConfig(EmptyMap)
  /\ filePath_ = ""
  /\ instance = FALSE
  /\ mutable_ = FALSE
  /\ values_ = EmptyMap
  /\ lock = [w |-> 0, r |-> {}]
  /\ pc = NoThreads
  /\ local = NoThreads
  /\ exited = FALSE
  /\ from = <<>>
  /\ to = "BYTE"
  /\ lastCall = NoCall

Next ==
  \/ \E p \in Paths, f \in Files : initialize(p, f)
  \/ \E k \in Keys, v \in Values : ConfigBase_setValue(k, v)
  \/ \E k \in Keys : optionalProperty(k)
  \/ mutableConfig
  \/ BaseVeloxQueryConfig_instance
  \/ \E k \in QueryKeys, v \in QueryValues : BaseVeloxQueryConfig_setValue(k, v)
  \/ \E k \in QueryKeys : BaseVeloxQueryConfig_getValue(k)

Spec == Init /\ [][Next]_vars

----------------------------------------------------------------------------
(* BaseVeloxQueryConfig under threads: NumThreads writers, each calling      *)
(* setValue once on a key of its own, and NumThreads readers, each calling   *)
(* getValue once.  A call is split at its lock operations and at each        *)
(* statement between them.                                                    *)

NumThreads == 2

Writers == 1..NumThreads
Readers == (NumThreads + 1)..(2 * NumThreads)

QueryKeyNames == <<"q1", "q2", "q3", "q4">>

\* Writer i's key, and the key reader NumThreads + i asks for.
KeyOf(t) == QueryKeyNames[IF t \in Writers THEN t ELSE t - NumThreads]

AllWritersReturned == \A w \in Writers : pc[w] = "done"

Idle == [key |-> "", value |-> <<>>, ret |-> None, outcome |-> "", after |-> FALSE]

\* values_.wlock(): granted when no thread holds the lock in any mode.
AcquireWriteLock_Shared(t) ==
  /\ lock.w = 0
  /\ lock' = [lock EXCEPT !.r = @ \cup {t}]

AcquireWriteLock(t) ==
  /\ lock.w = 0
  /\ lock.r = {}
  /\ lock' = [lock EXCEPT !.w = t]

\* values_.rlock(): granted when no writer holds the lock.
AcquireReadLock(t) ==
  /\ lock.w = 0
  /\ lock' = [lock EXCEPT !.r = @ \cup {t}]

\* The locked pointer going out of scope.
ReleaseLock(t) ==
  lock' = [w |-> IF lock.w = t THEN 0 ELSE lock.w, r |-> lock.r \ {t}]

\* setValue is entered: the mutability check of lines 505-510.
setValue_enter(t, value) ==
  /\ ~exited
  /\ t \in Writers
  /\ pc[t] = "idle"
  /\ IF WriteAllowed(mutable_)
     THEN /\ pc' = [pc EXCEPT ![t] = "wlock"]
          /\ local' = [local EXCEPT ![t] = [Idle EXCEPT !.key = KeyOf(t), !.value = value]]
     ELSE /\ pc' = [pc EXCEPT ![t] = "done"]
          /\ local' = [local EXCEPT ![t] = [Idle EXCEPT !.key = KeyOf(t), !.value = value,
                                                       !.outcome = "ConfigNotMutable"]]
  /\ UNCHANGED <<config_, filePath_, instance, mutable_, values_, lock, exited, from, to, lastCall>>

setValue_wlock(t) ==
  /\ t \in Writers
  /\ pc[t] = "wlock"
  /\ AcquireWriteLock(t)
  /\ pc' = [pc EXCEPT ![t] = "find"]
  /\ UNCHANGED <<config_, filePath_, instance, mutable_, values_, local, exited, from, to, lastCall>>

setValue_find(t) ==
  /\ t \in Writers
  /\ pc[t] = "find"
  /\ local' = [local EXCEPT ![t].ret = Find(values_, local[t].key)]
  /\ pc' = [pc EXCEPT ![t] = "store"]
  /\ UNCHANGED <<config_, filePath_, instance, mutable_, values_, lock, exited, from, to, lastCall>>

\* The assignment through the locked pointer.  Made while another thread holds
\* the lock too it is a data race on the map: the write may take effect or be
\* lost.
setValue_store(t) ==
  /\ t \in Writers
  /\ pc[t] = "store"
  /\ IF lock.w = t /\ lock.r = {}
     THEN values_' = StoreValue(values_, local[t].key, local[t].value)
     ELSE values_' \in {StoreValue(values_, local[t].key, local[t].value), values_}
  /\ pc' = [pc EXCEPT ![t] = "return"]
  /\ UNCHANGED <<config_, filePath_, instance, mutable_, lock, local, exited, from, to, lastCall>>

setValue_return(t) ==
  /\ t \in Writers
  /\ pc[t] = "return"
  /\ ReleaseLock(t)
  /\ local' = [local EXCEPT ![t].outcome = "ok"]
  /\ pc' = [pc EXCEPT ![t] = "done"]
  /\ UNCHANGED <<config_, filePath_, instance, mutable_, values_, exited, from, to, lastCall>>

\* getValue is entered; `after` notes whether every writer had returned by then.
getValue_enter(t) ==
  /\ ~exited
  /\ t \in Readers
  /\ pc[t] = "idle"
  /\ local' = [local EXCEPT ![t] = [Idle EXCEPT !.key = KeyOf(t),
                                                !.after = AllWritersReturned]]
  /\ pc' = [pc EXCEPT ![t] = "rlock"]
  /\ UNCHANGED <<config_, filePath_, instance, mutable_, values_, lock, exited, from, to, lastCall>>

getValue_rlock(t) ==
  /\ t \in Readers
  /\ pc[t] = "rlock"
  /\ AcquireReadLock(t)
  /\ pc' = [pc EXCEPT ![t] = "find"]
  /\ UNCHANGED <<config_, filePath_, instance, mutable_, values_, local, exited, from, to, lastCall>>

getValue_find(t) ==
  /\ t \in Readers
  /\ pc[t] = "find"
  /\ local' = [local EXCEPT ![t].ret = Find(values_, local[t].key)]
  /\ pc' = [pc EXCEPT ![t] = "return"]
  /\ UNCHANGED <<config_, filePath_, instance, mutable_, values_, lock, exited, from, to, lastCall>>

getValue_return(t) ==
  /\ t \in Readers
  /\ pc[t] = "return"
  /\ ReleaseLock(t)
  /\ local' = [local EXCEPT ![t].outcome = "ok"]
  /\ pc' = [pc EXCEPT ![t] = "done"]
  /\ UNCHANGED <<config_, filePath_, instance, mutable_, values_, exited, from, to, lastCall>>

\* The facade has been constructed over a system-level store loaded with the
\* mutable-config value `flag`.
InitConc ==
  /\ \E flag \in {sTrue, sFalse} :
       /\ config_ = BuildConfig(MemConfig(EmptyMap), StoreValue(EmptyMap, kMutableConfig, flag))
       /\ mutable_ = CapturedFlag(config_).v
  /\ filePath_ = SystemPath
  /\ instance = TRUE
  /\ values_ = EmptyMap
  /\ lock = [w |-> 0, r |-> {}]
  /\ pc = [t \in Writers \cup Readers |-> "idle"]
  /\ local = [t \in Writers \cup Readers |-> Idle]
  /\ exited = FALSE
  /\ from = <<>>
  /\ to = "BYTE"
  /\ lastCall = NoCall

NextConc ==
  \/ \E t \in Writers, v \in QueryValues : setValue_enter(t, v)
  \/ \E t \in Writers : setValue_wlock(t)
  \/ \E t \in Writers : setValue_find(t)
  \/ \E t \in Writers : setValue_store(t)
  \/ \E t \in Writers : setValue_return(t)
  \/ \E t \in Readers : getValue_enter(t)
  \/ \E t \in Readers : getValue_rlock(t)
  \/ \E t \in Readers : getValue_find(t)
  \/ \E t \in Readers : getValue_return(t)

SpecConc == InitConc /\ [][NextConc]_vars

----------------------------------------------------------------------------
(* ConfigBase::setValue under threads on a Mutable store: NumCallers threads, *)
(* each calling setValue once.  Config::get and MemConfigMutable::setValue    *)
(* each take the store's own lock for the length of the one call, so each is  *)
(* one step; ConfigBase::setValue holds no lock across the two.               *)

NumCallers == 2

Callers == 1..NumCallers

ConfigBase_setValue_enter(t, propertyName, value) ==
  /\ ~exited
  /\ pc[t] = "idle"
  /\ IF IsMutable(config_)
     THEN /\ pc' = [pc EXCEPT ![t] = "get"]
          /\ local' = [local EXCEPT ![t] = [Idle EXCEPT !.key = propertyName,
                                                       !.value = value]]
     ELSE /\ pc' = [pc EXCEPT ![t] = "done"]
          /\ local' = [local EXCEPT ![t] = [Idle EXCEPT !.key = propertyName,
                                                       !.value = value,
                                                       !.outcome = "ConfigNotMutable"]]
  /\ UNCHANGED <<config_, filePath_, instance, mutable_, values_, lock, exited, from, to, lastCall>>

\* auto oldValue = config_->get(propertyName);
ConfigBase_setValue_get(t) ==
  /\ pc[t] = "get"
  /\ local' = [local EXCEPT ![t].ret = Get(config_, local[t].key)]
  /\ pc' = [pc EXCEPT ![t] = "set"]
  /\ UNCHANGED <<config_, filePath_, instance, mutable_, values_, lock, exited, from, to, lastCall>>

\* memConfig->setValue(propertyName, value);
ConfigBase_setValue_set(t) ==
  /\ pc[t] = "set"
  /\ config_' = MemConfigMutable_setValue(config_, local[t].key, local[t].value)
  /\ pc' = [pc EXCEPT ![t] = "return"]
  /\ UNCHANGED <<filePath_, instance, mutable_, values_, lock, local, exited, from, to, lastCall>>

\* return oldValue;
ConfigBase_setValue_return(t) ==
  /\ pc[t] = "return"
  /\ local' = [local EXCEPT ![t].outcome = "ok"]
  /\ pc' = [pc EXCEPT ![t] = "done"]
  /\ UNCHANGED <<config_, filePath_, instance, mutable_, values_, lock, exited, from, to, lastCall>>

\* The store has been loaded from a system file that sets mutable-config.
InitRace ==
  /\ \E flag \in {sTrue, sOne, sFalse} :
       config_ = BuildConfig(MemConfig(EmptyMap), StoreValue(EmptyMap, kMutableConfig, flag))
  /\ filePath_ = SystemPath
  /\ instance = FALSE
  /\ mutable_ = FALSE
  /\ values_ = EmptyMap
  /\ lock = [w |-> 0, r |-> {}]
  /\ pc = [t \in Callers |-> "idle"]
  /\ local = [t \in Callers |-> Idle]
  /\ exited = FALSE
  /\ from = <<>>
  /\ to = "BYTE"
  /\ lastCall = NoCall

NextRace ==
  \/ \E t \in Callers, k \in Keys, v \in Values : ConfigBase_setValue_enter(t, k, v)
  \/ \E t \in Callers : ConfigBase_setValue_get(t)
  \/ \E t \in Callers : ConfigBase_setValue_set(t)
  \/ \E t \in Callers : ConfigBase_setValue_return(t)

SpecRace == InitRace /\ [][NextRace]_vars

----------------------------------------------------------------------------
(* NodeConfig::nodeMemoryGb on a node-level store. *)

sZero == <<"0">>
sSixteen == <<"1", "6">>

NodeKeys == {kNodeMemoryGb, kNodeId}
NodeValues == {sZero, sOne, sSixteen, sX}

NodeFiles ==
  {Unreadable} \cup {[readable |-> TRUE, values |-> m] : m \in Mappings(NodeKeys, NodeValues)}

\* The fallbacks a caller passes: none, one that returns 0, one that returns 8.
Fallbacks == {NoFallback, Fallback(0), Fallback(8)}

RECURSIVE DecimalValue(_)
DecimalValue(s) ==
  IF s = <<>> THEN 0
  ELSE 10 * DecimalValue(SubSeq(s, 1, Len(s) - 1)) + DigitValue(s[Len(s)])

\* folly::to<uint64_t>(string): surrounding whitespace is skipped, the rest must
\* be decimal digits (of the few digits the modelled files hold, so the value is
\* in range); anything else is a conversion error (ok = FALSE).
toUInt64(s) ==
  IF Trim(s) # <<>> /\ \A i \in 1..Len(Trim(s)) : IsDigit(Trim(s)[i])
  THEN [ok |-> TRUE, v |-> DecimalValue(Trim(s))]
  ELSE [ok |-> FALSE, v |-> 0]

\* ConfigBase::optionalProperty<uint64_t>: absent, a parsed value, or a type mismatch.
optionalPropertyUInt64(cfg, key) ==
  IF key \notin DOMAIN cfg.values THEN [ok |-> TRUE, opt |-> None]
  ELSE IF toUInt64(cfg.values[key]).ok
       THEN [ok |-> TRUE, opt |-> Some(toUInt64(cfg.values[key]).v)]
       ELSE [ok |-> FALSE, opt |-> None]

\* nodeMemoryGb's test of the resolved value.
IsBadNodeMemory_Never(result) == FALSE

IsBadNodeMemory(result) == result = 0

\* Whether nodeMemoryGb calls the fallback: the property is absent and a
\* fallback was passed.
UsesFallback(resultOpt, defaultNodeMemoryGb) ==
  resultOpt = None /\ defaultNodeMemoryGb.present

nodeMemoryGb(defaultNodeMemoryGb) ==
  LET resultOpt == optionalPropertyUInt64(config_, kNodeMemoryGb)
      invoked == resultOpt.ok /\ UsesFallback(resultOpt.opt, defaultNodeMemoryGb)
      result == IF invoked THEN defaultNodeMemoryGb.result
                ELSE IF resultOpt.opt # None THEN resultOpt.opt[1]
                ELSE 0
      call(outcome, ret) ==
        [Call("nodeMemoryGb", kNodeMemoryGb, <<>>, outcome, ret)
           EXCEPT !.fallback = defaultNodeMemoryGb, !.invoked = invoked]
  IN  /\ ~exited
      /\ IF ~resultOpt.ok
         THEN \* the typed lookup throws
              /\ lastCall' = call("TypeMismatch", None)
              /\ UNCHANGED exited
         ELSE IF resultOpt.opt = None /\ ~invoked
         THEN \* VELOX_FAIL: neither the property nor a fallback
              /\ lastCall' = call("VeloxRuntimeError", None)
              /\ UNCHANGED exited
         ELSE IF IsBadNodeMemory(result)
         THEN \* exit(1)
              /\ lastCall' = call("exit", None)
              /\ exited' = TRUE
         ELSE /\ lastCall' = call("ok", Some(result))
              /\ UNCHANGED exited
      /\ UNCHANGED <<config_, filePath_, instance, mutable_, values_, lock, pc, local,
                     from, to>>

NextNode ==
  \/ \E p \in Paths, f \in NodeFiles : initialize(p, f)
  \/ \E fb \in Fallbacks : nodeMemoryGb(fb)

SpecNode == Init /\ [][NextNode]_vars

----------------------------------------------------------------------------
(* Natural numbers of any size, as sequences of limbs of LimbBits bits each,  *)
(* lowest first, with no leading zero limb (zero is the empty sequence): the  *)
(* capacities of toCapacity do not fit the model checker's integers.          *)

LimbBits == 15

Base == 2 ^ LimbBits

RECURSIVE Normalize(_)
Normalize(n) ==
  IF n # <<>> /\ n[Len(n)] = 0 THEN Normalize(SubSeq(n, 1, Len(n) - 1)) ELSE n

\* n * f + c for small f and c, from limb i up.
RECURSIVE MulAddFrom(_, _, _, _)
MulAddFrom(n, f, c, i) ==
  IF i > Len(n) THEN (IF c = 0 THEN <<>> ELSE <<c>>)
  ELSE <<(n[i] * f + c) % Base>> \o MulAddFrom(n, f, (n[i] * f + c) \div Base, i + 1)

MulSmallAdd(n, f, c) == Normalize(MulAddFrom(n, f, c, 1))

Inc(n) == MulSmallAdd(n, 1, 1)

\* n divided by the small number d, from limb i down: quotient and remainder.
RECURSIVE DivFrom(_, _, _, _)
DivFrom(n, d, i, rem) ==
  IF i = 0 THEN [q |-> <<>>, rem |-> rem]
  ELSE [q |-> DivFrom(n, d, i - 1, (rem * Base + n[i]) % d).q
                \o <<(rem * Base + n[i]) \div d>>,
        rem |-> DivFrom(n, d, i - 1, (rem * Base + n[i]) % d).rem]

DivSmall(n, d) ==
  [q |-> Normalize(DivFrom(n, d, Len(n), 0).q), rem |-> DivFrom(n, d, Len(n), 0).rem]

\* n * 2^k
ShiftLeft(n, k) ==
  IF n = <<>> THEN <<>>
  ELSE [i \in 1..(k \div LimbBits) |-> 0] \o MulSmallAdd(n, 2 ^ (k % LimbBits), 0)

\* n / 2^k, truncated.
ShiftRight(n, k) ==
  IF k \div LimbBits >= Len(n) THEN <<>>
  ELSE DivSmall(SubSeq(n, k \div LimbBits + 1, Len(n)), 2 ^ (k % LimbBits)).q

\* n mod 2^k
ModPow2(n, k) ==
  IF k \div LimbBits >= Len(n) THEN n
  ELSE Normalize(SubSeq(n, 1, k \div LimbBits)
                 \o <<n[k \div LimbBits + 1] % (2 ^ (k % LimbBits))>>)

\* Bit i of n, the lowest being bit 0.
Bit(n, i) ==
  IF i \div LimbBits >= Len(n) THEN 0
  ELSE (n[i \div LimbBits + 1] \div (2 ^ (i % LimbBits))) % 2

\* The number of bits of n.
BitLen(n) ==
  IF n = <<>> THEN 0
  ELSE (Len(n) - 1) * LimbBits
       + (CHOOSE j \in 1..LimbBits : 2 ^ (j - 1) <= n[Len(n)] /\ n[Len(n)] < 2 ^ j)

\* 2^k
Pow2(k) == ShiftLeft(<<1>>, k)

\* 2^k - 1
Ones(k) ==
  [i \in 1..(k \div LimbBits) |-> Base - 1]
    \o (IF k % LimbBits = 0 THEN <<>> ELSE <<2 ^ (k % LimbBits) - 1>>)

\* The number a decimal digit string denotes.
RECURSIVE FromDecimal(_)
FromDecimal(digits) ==
  IF digits = <<>> THEN <<>>
  ELSE MulSmallAdd(FromDecimal(SubSeq(digits, 1, Len(digits) - 1)), 10,
                   DigitValue(digits[Len(digits)]))

RECURSIVE Pow5(_)
Pow5(k) == IF k = 0 THEN 1 ELSE 5 * Pow5(k - 1)

----------------------------------------------------------------------------
(* double: a value m * 2^e with m of at most MantissaBits bits. *)

MantissaBits == 53
UInt64Bits == 64

\* Round the number n (plus a fraction below one when `sticky`) to
\* MantissaBits significant bits, to nearest, ties to even: m * 2^e.
RoundToDouble(n, sticky) ==
  IF BitLen(n) <= MantissaBits THEN [m |-> n, e |-> 0]
  ELSE LET d == BitLen(n) - MantissaBits
           q == ShiftRight(n, d)
           half == Bit(n, d - 1) = 1
           low == sticky \/ ModPow2(n, d - 1) # <<>>
           up == half /\ (low \/ Bit(q, 0) = 1)
       IN  [m |-> IF up THEN Inc(q) ELSE q, e |-> d]

\* The double RE2 parses from the number's text, digits and fraction digits:
\* the nearest double to digits.frac = N / 10^k, N the digits read as one
\* number, computed as (N * 2^64 / 5^k) * 2^-(64 + k).
ParseDouble(digits, frac) ==
  LET d == DivSmall(ShiftLeft(FromDecimal(digits \o frac), UInt64Bits), Pow5(Len(frac)))
      r == RoundToDouble(d.q, d.rem # 0)
  IN  [m |-> r.m, e |-> r.e - UInt64Bits - Len(frac)]

\* x * y and x / y for y a power of two, which every toBytesPerCapacityUnit
\* result and every quotient of two of them is: exact.
DoubleMulPow2(x, y) == [m |-> x.m, e |-> x.e + y.e]

DoubleDivPow2(x, y) == [m |-> x.m, e |-> x.e - y.e]

\* The whole part of a double, truncated toward zero.
Truncate(x) ==
  IF x.e >= 0 THEN ShiftLeft(x.m, x.e) ELSE ShiftRight(x.m, 0 - x.e)

----------------------------------------------------------------------------
(* The capacity parser. *)

CapacityUnits == {"BYTE", "KILOBYTE", "MEGABYTE", "GIGABYTE", "TERABYTE", "PETABYTE"}

\* exp2(k) as a double.
exp2(k) == [m |-> <<1>>, e |-> k]

toBytesPerCapacityUnit(unit) ==
  CASE unit = "BYTE" -> [m |-> <<1>>, e |-> 0]
    [] unit = "KILOBYTE" -> exp2(10)
    [] unit = "MEGABYTE" -> exp2(20)
    [] unit = "GIGABYTE" -> exp2(30)
    [] unit = "TERABYTE" -> exp2(40)
    [] unit = "PETABYTE" -> exp2(50)

\* The unit a token names; ok = FALSE for "Invalid capacity unit".
valueOfCapacityUnit(unitStr) ==
  IF unitStr = <<"B">> THEN [ok |-> TRUE, unit |-> "BYTE"]
  ELSE IF unitStr = <<"k", "B">> THEN [ok |-> TRUE, unit |-> "KILOBYTE"]
  ELSE IF unitStr = <<"M", "B">> THEN [ok |-> TRUE, unit |-> "MEGABYTE"]
  ELSE IF unitStr = <<"G", "B">> THEN [ok |-> TRUE, unit |-> "GIGABYTE"]
  ELSE IF unitStr = <<"T", "B">> THEN [ok |-> TRUE, unit |-> "TERABYTE"]
  ELSE IF unitStr = <<"P", "B">> THEN [ok |-> TRUE, unit |-> "PETABYTE"]
  ELSE [ok |-> FALSE, unit |-> ""]

Letters ==
  {"a", "b", "c", "d", "e", "f", "g", "h", "i", "j", "k", "l", "m", "n", "o", "p", "q",
   "r", "s", "t", "u", "v", "w", "x", "y", "z", "A", "B", "C", "D", "E", "F", "G", "H",
   "I", "J", "K", "L", "M", "N", "O", "P", "Q", "R", "S", "T", "U", "V", "W", "X", "Y",
   "Z"}

IsLetter(c) == c \in Letters

\* The longest prefix of s of digits (of letters), and what follows it.
RECURSIVE DigitPrefixLen(_)
DigitPrefixLen(s) ==
  IF s # <<>> /\ IsDigit(Head(s)) THEN 1 + DigitPrefixLen(Tail(s)) ELSE 0

RECURSIVE LetterPrefixLen(_)
LetterPrefixLen(s) ==
  IF s # <<>> /\ IsLetter(Head(s)) THEN 1 + LetterPrefixLen(Tail(s)) ELSE 0

Drop(s, n) == SubSeq(s, n + 1, Len(s))

\* kPattern, ^\s*(\d+(?:\.\d+)?)\s*([a-zA-Z]+)\s*$, matched in full: the
\* number's digits, its fraction digits and the unit token.
kPattern(s) ==
  LET s1 == SkipSpaces(s)
      nd == DigitPrefixLen(s1)
      s2 == Drop(s1, nd)
      hasFrac == /\ Len(s2) >= 2
                 /\ s2[1] = "."
                 /\ IsDigit(s2[2])
      nf == IF hasFrac THEN DigitPrefixLen(Tail(s2)) ELSE 0
      s3 == IF hasFrac THEN Drop(s2, nf + 1) ELSE s2
      s4 == SkipSpaces(s3)
      nu == LetterPrefixLen(s4)
      s5 == SkipSpaces(Drop(s4, nu))
  IN  IF nd > 0 /\ nu > 0 /\ s5 = <<>>
      THEN [ok |-> TRUE,
            digits |-> SubSeq(s1, 1, nd),
            frac |-> IF hasFrac THEN SubSeq(s2, 2, nf + 1) ELSE <<>>,
            unit |-> SubSeq(s4, 1, nu)]
      ELSE [ok |-> FALSE, digits |-> <<>>, frac |-> <<>>, unit |-> <<>>]

\* value * (toBytesPerCapacityUnit(unit) / toBytesPerCapacityUnit(to)), as a double.
Scaled(value, unit, target) ==
  DoubleMulPow2(value,
                DoubleDivPow2(toBytesPerCapacityUnit(unit), toBytesPerCapacityUnit(target)))

\* What the conversion of a double outside uint64_t's range may give: the
\* conversion is undefined there.
OutOfRangeResults == {<<>>, Pow2(UInt64Bits - 1), Ones(UInt64Bits)}

\* The uint64_t values the return statement's conversion of the double x may give.
ToUInt64(x) ==
  IF BitLen(Truncate(x)) <= UInt64Bits THEN {Truncate(x)} ELSE OutOfRangeResults

toCapacity ==
  LET match == kPattern(from)
      unit == valueOfCapacityUnit(match.unit)
  IN  /\ ~exited
      /\ IF ~match.ok
         THEN lastCall' = Call("toCapacity", to, from, "InvalidFormat", None)
         ELSE IF ~unit.ok
         THEN lastCall' = Call("toCapacity", to, from, "InvalidUnit", None)
         ELSE \E result \in ToUInt64(Scaled(ParseDouble(match.digits, match.frac),
                                            unit.unit, to)) :
                lastCall' = Call("toCapacity", to, from, "ok", Some(result))
      /\ UNCHANGED <<config_, filePath_, instance, mutable_, values_, lock, pc, local,
                     exited, from, to>>

\* The capacity strings converted: whole numbers up to the largest uint64_t
\* with each unit token, with and without spaces, numbers with a fraction,
\* tokens that name no unit, and strings kPattern does not match.
UnitTokens ==
  {<<"B">>, <<"k", "B">>, <<"M", "B">>, <<"G", "B">>, <<"T", "B">>, <<"P", "B">>}

OtherTokens == {<<"X", "B">>, <<"K", "B">>, <<"g", "b">>, <<"B", "B">>}

WholeNumbers ==
  {<<"0">>, <<"1">>, <<"5">>, <<"1", "0">>, <<"1", "0", "2", "3">>,
   <<"1", "0", "2", "4">>, <<"1", "6", "3", "8", "3">>, <<"1", "6", "3", "8", "4">>,
   <<"9", "0", "0", "7", "1", "9", "9", "2", "5", "4", "7", "4", "0", "9", "9", "2">>,
   <<"9", "0", "0", "7", "1", "9", "9", "2", "5", "4", "7", "4", "0", "9", "9", "3">>,
   <<"9", "0", "0", "7", "1", "9", "9", "2", "5", "4", "7", "4", "0", "9", "9", "5">>,
   <<"1", "8", "4", "4", "6", "7", "4", "4", "0", "7", "3", "7", "0", "9", "5", "5", "1",
     "6", "1", "5">>}

FractionNumbers ==
  {<<"1", ".", "5">>, <<"0", ".", "1">>, <<"0", ".", "9", "9", "9">>, <<"2", ".", "0">>}

Malformed ==
  {<<>>, <<"a", "b", "c">>, <<"G", "B">>, <<"1", "2">>, <<"1", ".", "G", "B">>,
   <<".", "5", "G", "B">>, <<"-", "1", "B">>, <<"1", "k", "B", " ", "x">>,
   <<"1", " ", "0", "B">>, <<"1", "e", "3", "B">>}

CapacityStrings ==
  {n \o u : n \in WholeNumbers \cup FractionNumbers, u \in UnitTokens \cup OtherTokens}
    \cup {<<" ">> \o n \o <<" ", "\t">> \o u \o <<" ">> :
            n \in {<<"1">>, <<"1", ".", "5">>}, u \in UnitTokens}
    \cup Malformed

InitCap ==
  /\ config_ = MemConfig(EmptyMap)
  /\ filePath_ = ""
  /\ instance = FALSE
  /\ mutable_ = FALSE
  /\ values_ = EmptyMap
  /\ lock = [w |-> 0, r |-> {}]
  /\ pc = NoThreads
  /\ local = NoThreads
  /\ exited = FALSE
  /\ from \in CapacityStrings
  /\ to \in CapacityUnits
  /\ lastCall = NoCall

NextCap == toCapacity

SpecCap == InitCap /\ [][NextCap]_vars

----------------------------------------------------------------------------
(* Properties of the stores, one call at a time (Spec). *)

\* What get(k) returns on a mapping.
Lookup(values, k) == IF k \in DOMAIN values THEN <<values[k]>> ELSE <<>>

\* C1: on an Immutable store every setValue fails with ConfigNotMutable, for a
\* present and for an absent key, and get(k) is the same before and after for
\* every key k.
C1_ImmutableSetValueFails ==
  [][(lastCall'.op = "setValue" /\ ~config_.mutable)
       => /\ lastCall'.outcome = "ConfigNotMutable"
          /\ \A k \in Keys : Lookup(config_'.values, k) = Lookup(config_.values, k)
          /\ config_' = config_]_vars

C1_Witness ==
  /\ lastCall.op = "setValue"
  /\ lastCall.outcome = "ConfigNotMutable"
  /\ ~config_.mutable
  /\ filePath_ # ""
  /\ lastCall.key \in DOMAIN config_.values
  /\ config_.values[lastCall.key] # lastCall.value

\* C2: on a Mutable store setValue(k, v) returns what get(k) returned just
\* before, afterwards get(k) = v and get(j) is unchanged for every other key j;
\* a setValue(k, v2) right after a setValue(k, v1) returns v1.
C2_MutableSetValueReturnsPrevious ==
  [][(lastCall'.op = "setValue" /\ config_.mutable)
       => /\ lastCall'.outcome = "ok"
          /\ lastCall'.ret = Lookup(config_.values, lastCall'.key)
          /\ Lookup(config_'.values, lastCall'.key) = <<lastCall'.value>>
          /\ \A j \in Keys \ {lastCall'.key} :
               Lookup(config_'.values, j) = Lookup(config_.values, j)
          /\ (lastCall.op = "setValue" /\ lastCall.key = lastCall'.key)
               => lastCall'.ret = <<lastCall.value>>]_vars

C2_Witness ==
  /\ lastCall.op = "setValue"
  /\ lastCall.outcome = "ok"
  /\ lastCall.key = kPrestoVersion
  /\ lastCall.ret = <<sOne>>
  /\ lastCall.value = sX
  /\ Lookup(config_.values, kPrestoVersion) = <<sX>>

\* C3: the override store's setValue fails with ConfigNotMutable, changing no
\* override, unless the facade's flag is true; the flag is the system-level
\* mutable-config value read when the facade is constructed and never changes
\* afterwards, whatever initialize and setValue do to the system-level store;
\* getValue is never gated.
C3_OverrideGatedByCapturedFlag ==
  [][/\ (lastCall'.op = "querySetValue" /\ ~mutable_)
          => (lastCall'.outcome = "ConfigNotMutable" /\ values_' = values_)
     /\ (lastCall'.op = "querySetValue" /\ mutable_)
          => (lastCall'.outcome = "ok"
              /\ Lookup(values_', lastCall'.key) = <<lastCall'.value>>)
     /\ (~instance /\ instance')
          => (mutable_' = (Lookup(config_.values, kMutableConfig) # <<>>
                           /\ toBool(config_.values[kMutableConfig]).v))
     /\ instance => (instance' /\ mutable_' = mutable_)
     /\ lastCall'.op = "queryGetValue"
          => (lastCall'.outcome = "ok"
              /\ lastCall'.ret = Lookup(values_, lastCall'.key))]_vars

C3_Witness ==
  /\ instance
  /\ ~mutable_
  /\ config_.mutable
  /\ Lookup(config_.values, kMutableConfig) = <<sTrue>>
  /\ lastCall.op = "querySetValue"
  /\ lastCall.outcome = "ConfigNotMutable"

\* C5 as stated: the store's mode never changes after construction, in any
\* state reached by initialize, get and setValue.
C5_ModeNeverChanges == [][config_'.mutable = config_.mutable]_vars

\* C5 as amended: no call other than initialize changes the store's mode; get
\* and setValue, also a setValue that writes the mutable-config key, leave it
\* as it was.
C5_ModeChangesOnlyInInitialize ==
  [][lastCall'.op # "initialize" => config_'.mutable = config_.mutable]_vars

C5_Witness ==
  /\ config_.mutable
  /\ lastCall.op = "setValue"
  /\ lastCall.outcome = "ok"
  /\ lastCall.key = kMutableConfig
  /\ lastCall.value = sFalse

\* C6: after a successful initialize(path) the store holds exactly the mapping
\* loaded from the path, every loaded key retrievable with its loaded value
\* whether logged as supported or as unsupported, and the mode is Mutable if
\* and only if the mapping holds the mutable-config key with a value that
\* parses to true.
C6_InitializeLastWriteWins ==
  (lastCall.op = "initialize" /\ lastCall.outcome = "ok")
    => /\ config_.values = lastCall.loaded
       /\ \A k \in Keys : Lookup(config_.values, k) = Lookup(lastCall.loaded, k)
       /\ \A k \in lastCall.log.supported \cup lastCall.log.unsupported :
            Lookup(config_.values, k) = <<lastCall.loaded[k]>>
       /\ config_.mutable =
            (/\ kMutableConfig \in DOMAIN lastCall.loaded
             /\ toBool(lastCall.loaded[kMutableConfig]) = [ok |-> TRUE, v |-> TRUE])
       /\ filePath_ = lastCall.key

C6_Witness ==
  /\ lastCall.op = "initialize"
  /\ lastCall.outcome = "ok"
  /\ config_.mutable
  /\ lastCall.log.unsupported = {kMutableConfig}
  /\ DOMAIN config_.values = {kMutableConfig}

\* C10 as stated: after a successful initialize and any setValue calls,
\* mutableConfig() returns true if and only if setValue is permitted.
C10_AccessorAgreesWithMode ==
  filePath_ # ""
    => (mutableConfigOf(config_) = [ok |-> TRUE, v |-> TRUE]) = config_.mutable

\* C10 as amended: mutableConfig() returns true only if setValue is permitted,
\* and right after a successful initialize it returns true if and only if
\* setValue is permitted.
C10_AccessorTrueImpliesMutable ==
  /\ (mutableConfigOf(config_) = [ok |-> TRUE, v |-> TRUE]) => config_.mutable
  /\ (lastCall.op = "initialize" /\ lastCall.outcome = "ok")
       => (mutableConfigOf(config_) = [ok |-> TRUE, v |-> TRUE]) = config_.mutable

C10_Witness ==
  /\ config_.mutable
  /\ lastCall.op = "setValue"
  /\ lastCall.key = kMutableConfig
  /\ lastCall.value = sOne
  /\ lastCall.ret = <<sTrue>>
  /\ mutableConfigOf(config_) = [ok |-> TRUE, v |-> TRUE]

----------------------------------------------------------------------------
(* Properties of the override store under threads (SpecConc). *)

InCriticalSection(t) ==
  IF t \in Writers THEN pc[t] \in {"find", "store", "return"}
  ELSE pc[t] \in {"find", "return"}

\* C4: with the flag true and the writers on distinct keys no update is lost:
\* once every writer has returned the store holds each writer's value under its
\* key, and every getValue entered after that returns the value written under
\* the key it asks for, also while other readers hold the lock; a writer between
\* its find and its store shares the lock with no reader and no other writer.
C4_NoLostUpdates ==
  mutable_ =>
    /\ AllWritersReturned
         => \A w \in Writers : Lookup(values_, KeyOf(w)) = <<local[w].value>>
    /\ \A r \in Readers :
         (pc[r] = "done" /\ local[r].after)
           => local[r].ret = <<local[r - NumThreads].value>>
    /\ \A w \in Writers :
         InCriticalSection(w)
           => \A t \in (Writers \cup Readers) \ {w} : ~InCriticalSection(t)
    /\ \A w \in Writers :
         pc[w] = "done" => local[w].outcome = "ok" /\ local[w].ret = <<>>

C4_Witness ==
  /\ mutable_
  /\ AllWritersReturned
  /\ local[1].value # local[2].value
  /\ lock.r = {NumThreads + 1, NumThreads + 2}
  /\ pc[NumThreads + 1] = "return"
  /\ local[NumThreads + 1].after
  /\ local[NumThreads + 1].ret = <<local[1].value>>
  /\ pc[NumThreads + 2] = "return"
  /\ local[NumThreads + 2].after
  /\ local[NumThreads + 2].ret = <<local[2].value>>

----------------------------------------------------------------------------
(* Properties of ConfigBase::setValue under threads (SpecRace). *)

\* C9: on a Mutable store the read of the previous value and the store of the
\* new one are one atomic step, so every call returns the value its own write
\* replaced: of two concurrent calls setValue(k, a) and setValue(k, b) on a
\* store without k exactly one returns empty, the other returns the value of
\* the first, and the final get(k) is the value written by the call that did
\* not return empty.
C9_SetValueIsAtomic ==
  config_.mutable =>
    /\ \A t, u \in Callers :
         (/\ t # u
          /\ pc[t] = "done" /\ pc[u] = "done"
          /\ local[t].key = kPrestoVersion /\ local[u].key = kPrestoVersion
          /\ local[t].ret = <<>>)
           => /\ local[u].ret = <<local[t].value>>
              /\ Lookup(config_.values, kPrestoVersion) = <<local[u].value>>

----------------------------------------------------------------------------
(* Properties of nodeMemoryGb (SpecNode). *)

\* The numbers the node-memory values of the modelled files denote.
NodeMemoryOf(s) ==
  CASE s = <<"0">> -> 0
    [] s = <<"1">> -> 1
    [] s = <<"1", "6">> -> 16

ParsesAsNodeMemory(s) == s \in {<<"0">>, <<"1">>, <<"1", "6">>}

\* The value nodeMemoryGb resolved in the last call, when it resolved one.
Resolved ==
  IF kNodeMemoryGb \in DOMAIN config_.values
  THEN NodeMemoryOf(config_.values[kNodeMemoryGb])
  ELSE lastCall.fallback.result

\* C7: nodeMemoryGb uses the parsed property when it is present and does not
\* call the fallback; uses the fallback's result when the property is absent
\* and a fallback is passed; fails with an error, neither returning 0 nor
\* ending the process, when the property is absent and no fallback is passed.
\* A resolved value of zero ends the process instead of returning or raising;
\* a non-zero resolved value is returned unchanged.
C7_NodeMemoryResolution ==
  lastCall.op = "nodeMemoryGb" =>
    LET present == kNodeMemoryGb \in DOMAIN config_.values
        resolves ==
          \/ present /\ ParsesAsNodeMemory(config_.values[kNodeMemoryGb])
          \/ ~present /\ lastCall.fallback.present
    IN  /\ present => ~lastCall.invoked
        /\ (~present /\ lastCall.fallback.present) => lastCall.invoked
        /\ (~present /\ ~lastCall.fallback.present)
             => /\ lastCall.outcome = "VeloxRuntimeError"
                /\ lastCall.ret = <<>>
                /\ ~exited
        /\ (resolves /\ Resolved = 0)
             => (lastCall.outcome = "exit" /\ exited /\ lastCall.ret = <<>>)
        /\ (resolves /\ Resolved # 0)
             => (lastCall.outcome = "ok" /\ ~exited /\ lastCall.ret = <<Resolved>>)
        /\ exited => (resolves /\ Resolved = 0)

C7_Witness ==
  /\ lastCall.op = "nodeMemoryGb"
  /\ kNodeMemoryGb \notin DOMAIN config_.values
  /\ filePath_ = NodePath
  /\ lastCall.fallback = Fallback(0)
  /\ lastCall.invoked
  /\ exited

----------------------------------------------------------------------------
(* Properties of toCapacity (SpecCap). *)

\* The power of two a unit token, and a target unit, multiplies by.
TokenExponent(u) ==
  CASE u = <<"B">> -> 0
    [] u = <<"k", "B">> -> 10
    [] u = <<"M", "B">> -> 20
    [] u = <<"G", "B">> -> 30
    [] u = <<"T", "B">> -> 40
    [] u = <<"P", "B">> -> 50

UnitExponent(t) ==
  CASE t = "BYTE" -> 0
    [] t = "KILOBYTE" -> 10
    [] t = "MEGABYTE" -> 20
    [] t = "GIGABYTE" -> 30
    [] t = "TERABYTE" -> 40
    [] t = "PETABYTE" -> 50

\* n * 2^a / 2^b, truncated toward zero.
ExactConversion(n, a, b) ==
  IF a >= b THEN ShiftLeft(n, a - b) ELSE ShiftRight(n, b - a)

\* C8: for every whole number n and every unit token u of B, kB, MB, GB, TB,
\* PB, converting "<n><u>" to Byte yields exactly n * multiplier(u), and
\* converting it to any target unit t yields n * multiplier(u) / multiplier(t)
\* truncated toward zero, the multipliers being 2^0, 2^10, ..., 2^50.
C8_ConversionIsExact ==
  \A n \in WholeNumbers, u \in UnitTokens :
    (lastCall.op = "toCapacity" /\ from = n \o u)
      => /\ lastCall.outcome = "ok"
         /\ lastCall.ret
              = <<ExactConversion(FromDecimal(n), TokenExponent(u), UnitExponent(to))>>

\* A whole number of bytes that no double holds comes back changed.
C8_Witness ==
  /\ lastCall.op = "toCapacity"
  /\ from = <<"9", "0", "0", "7", "1", "9", "9", "2", "5", "4", "7", "4", "0", "9", "9",
              "3", "B">>
  /\ to = "BYTE"
  /\ lastCall.outcome = "ok"
  /\ lastCall.ret = <<Pow2(MantissaBits)>>
  /\ FromDecimal(SubSeq(from, 1, Len(from) - 1)) = Inc(Pow2(MantissaBits))

====
